---- MODULE Spec2Model ----
(***************************************************************************)
(* A model of src/main.rs: the recursive-descent parser (parse_either,     *)
(* parse_list, parse_one), the matcher (Pattern::matches) and the retry    *)
(* loop of run.                                                            *)
(*                                                                         *)
(* A character is a one-character string, a pattern or a line a sequence   *)
(* of characters.  An iterator over a sequence is the number of characters *)
(* it has consumed.  Option<T> is the empty sequence (None) or a one       *)
(* element sequence (Some).  The parser and the matcher are functions of   *)
(* their arguments and are operators; the loop of run is the state         *)
(* machine.                                                                *)
(***************************************************************************)
EXTENDS Integers, Sequences, FiniteSets, TLC

VARIABLES pattern, input_line, pc, parsed, capture_group_count,
          input_iter, state, result, attempts, calls

vars == <<pattern, input_line, pc, parsed, capture_group_count,
          input_iter, state, result, attempts, calls>>

(***************************************************************************)
(* Option and small helpers                                                *)
(***************************************************************************)
None == << >>

Some(x) == <<x>>

RECURSIVE SeqsUpTo(_, _)
SeqsUpTo(S, n) ==
    IF n = 0 THEN {<< >>}
    ELSE LET shorter == SeqsUpTo(S, n - 1)
         IN  shorter \cup {Append(s, c) : s \in shorter, c \in S}

(***************************************************************************)
(* enum Pattern                                                            *)
(***************************************************************************)
NoNode == [t |-> "None"]

Literal(c) == [t |-> "Literal", c |-> c]

Digit == [t |-> "Digit"]

Alphanumeric == [t |-> "Alphanumeric"]

CharacterGroup(positive, group) ==
    [t |-> "CharacterGroup", positive |-> positive, group |-> group]

StartAnchor == [t |-> "StartAnchor"]

EndAnchor == [t |-> "EndAnchor"]

OneOrMore(item) == [t |-> "OneOrMore", item |-> item]

ZeroOrOne(item) == [t |-> "ZeroOrOne", item |-> item]

Wildcard == [t |-> "Wildcard"]

List(items) == [t |-> "List", items |-> items]

Either(items) == [t |-> "Either", items |-> items]

Reference(id) == [t |-> "Reference", id |-> id]

CaptureGroup(id, item) == [t |-> "CaptureGroup", id |-> id, item |-> item]

(***************************************************************************)
(* EndFlags: a set of flags                                                *)
(***************************************************************************)
RPAREN == "RPAREN"

PIPE == "PIPE"

(***************************************************************************)
(* char::to_digit(10), char::is_digit(10), char::is_alphanumeric           *)
(***************************************************************************)
DigitChars == <<"0", "1", "2", "3", "4", "5", "6", "7", "8", "9">>

IsDigit(c) == \E d \in 1..Len(DigitChars) : DigitChars[d] = c

ToDigit(c) == (CHOOSE d \in 1..Len(DigitChars) : DigitChars[d] = c) - 1

Letters == {"a", "b", "c", "d", "g", "n", "o", "t", "w", "z", "é"}

IsAlphanumeric(c) == c \in Letters \/ IsDigit(c)

(***************************************************************************)
(* The parser.  A parse result is anyhow::Result<Option<Pattern>> together *)
(* with what the call did to its &mut arguments: the pattern iterator i    *)
(* (characters consumed) and capture_group_count.                          *)
(***************************************************************************)
ParseErr == [err |-> TRUE, node |-> NoNode, i |-> 0, count |-> 0]

ParseOk(node, i, count) == [err |-> FALSE, node |-> node, i |-> i, count |-> count]

\* the digits after the first one of a back reference: while let Some(c) = iter.peek()
RECURSIVE ReadNumber(_, _, _)
ReadNumber(pat, i, num) ==
    IF i < Len(pat) /\ IsDigit(pat[i + 1])
    THEN ReadNumber(pat, i + 1, num * 10 + ToDigit(pat[i + 1]))
    ELSE [num |-> num, i |-> i]

\* BackReferenceValid with the bound on the id off by one
BackReferenceValidOffByOne(num, count, parent) ==
    /\ num # 0
    /\ num - 1 <= count
    /\ (parent # None => parent[1] # num - 1)

\* the three anyhow::ensure! of a back reference
BackReferenceValid(num, count, parent) ==
    /\ num # 0
    /\ num - 1 < count
    /\ (parent # None => parent[1] # num - 1)

\* the loop { ... } reading the members of a character group up to ']'
RECURSIVE ReadGroup(_, _, _, _, _)
ReadGroup(pat, i, count, positive, group) ==
    IF i >= Len(pat) THEN ParseErr
    ELSE IF pat[i + 1] = "]" THEN ParseOk(CharacterGroup(positive, group), i + 1, count)
    ELSE ReadGroup(pat, i + 1, count, positive, Append(group, pat[i + 1]))

\* the trailing while let Some(c) = iter.peek() wrapping the item in quantifiers
RECURSIVE ReadQuantifiers(_, _, _)
ReadQuantifiers(pat, i, item) ==
    IF i < Len(pat) /\ pat[i + 1] = "+" THEN ReadQuantifiers(pat, i + 1, OneOrMore(item))
    ELSE IF i < Len(pat) /\ pat[i + 1] = "?" THEN ReadQuantifiers(pat, i + 1, ZeroOrOne(item))
    ELSE [item |-> item, i |-> i]

RECURSIVE parse_either(_, _, _, _, _)
RECURSIVE parse_list(_, _, _, _, _)
RECURSIVE parse_one(_, _, _, _)
RECURSIVE EitherLoop(_, _, _, _, _, _)
RECURSIVE ListLoop(_, _, _, _, _, _)

\* a back reference; n.i is the iterator after its digits, n.num their value
ParseReference(n, count, parent) ==
    IF BackReferenceValid(n.num, count, parent)
    THEN ParseOk(Reference(n.num - 1), n.i, count)
    ELSE ParseErr

\* the arm '\\' of parse_one; i is the iterator after the backslash
ParseEscape(pat, i, count, parent) ==
    IF i >= Len(pat) THEN ParseErr
    ELSE CASE pat[i + 1] = "d" -> ParseOk(Digit, i + 1, count)
           [] pat[i + 1] = "w" -> ParseOk(Alphanumeric, i + 1, count)
           [] IsDigit(pat[i + 1]) ->
                ParseReference(ReadNumber(pat, i + 1, ToDigit(pat[i + 1])), count, parent)
           [] OTHER -> ParseErr

\* the arm '(' of parse_one once parse_either has returned r
CloseCaptureGroup(pat, id, r) ==
    IF r.err THEN ParseErr
    ELSE IF r.node = NoNode THEN ParseErr
    ELSE IF r.i >= Len(pat) THEN ParseErr
    ELSE IF pat[r.i + 1] # ")" THEN ParseErr
    ELSE ParseOk(CaptureGroup(id, r.node), r.i + 1, r.count)

\* the arm '(' of parse_one; i is the iterator after the parenthesis
ParseCaptureGroup(pat, i, count) ==
    CloseCaptureGroup(pat, count, parse_either(pat, i, {RPAREN}, count + 1, Some(count)))

\* the arm '[' of parse_one; i is the iterator after the bracket
ParseCharacterGroup(pat, i, count) ==
    IF i >= Len(pat) THEN ParseErr
    ELSE IF pat[i + 1] = "^" THEN ReadGroup(pat, i + 1, count, FALSE, << >>)
    ELSE ReadGroup(pat, i + 1, count, TRUE, <<pat[i + 1]>>)

\* the match c { ... } of parse_one; i is the iterator after c
ParseItem(pat, c, i, count, parent) ==
    CASE c = "\\" -> ParseEscape(pat, i, count, parent)
      [] c = "(" -> ParseCaptureGroup(pat, i, count)
      [] c = "[" -> ParseCharacterGroup(pat, i, count)
      [] c = "^" -> ParseOk(StartAnchor, i, count)
      [] c = "$" -> ParseOk(EndAnchor, i, count)
      [] c = "+" -> ParseErr
      [] c = "?" -> ParseErr
      [] c = "." -> ParseOk(Wildcard, i, count)
      [] OTHER -> ParseOk(Literal(c), i, count)

\* the end of parse_one: the item r wrapped in the quantifiers q that follow it
Quantified(r, q) == ParseOk(q.item, q.i, r.count)

WithQuantifiers(pat, r) ==
    IF r.err THEN ParseErr ELSE Quantified(r, ReadQuantifiers(pat, r.i, r.node))

parse_one(pat, i, count, parent) ==
    IF i >= Len(pat) THEN ParseOk(NoNode, i, count)
    ELSE WithQuantifiers(pat, ParseItem(pat, pat[i + 1], i + 1, count, parent))

\* pattern = Some(List(..)) of parse_list
PushList(acc, item) ==
    IF acc = NoNode THEN item
    ELSE IF acc.t = "List" THEN List(Append(acc.items, item))
    ELSE List(<<acc, item>>)

\* the if let Some(c) = iter.peek().copied() of parse_list
AtListEnd(pat, i, end) ==
    /\ i < Len(pat)
    /\ \/ pat[i + 1] = ")" /\ RPAREN \in end
       \/ pat[i + 1] = "|" /\ PIPE \in end

\* the body of the while let of parse_list, parse_one having returned r
ListStep(pat, end, parent, acc, r) ==
    IF r.err THEN ParseErr
    ELSE IF r.node = NoNode THEN ParseOk(acc, r.i, r.count)
    ELSE IF AtListEnd(pat, r.i, end) THEN ParseOk(PushList(acc, r.node), r.i, r.count)
    ELSE ListLoop(pat, r.i, end, r.count, parent, PushList(acc, r.node))

\* the while let of parse_list; acc is the local `pattern`
ListLoop(pat, i, end, count, parent, acc) ==
    ListStep(pat, end, parent, acc, parse_one(pat, i, count, parent))

parse_list(pat, i, end, count, parent) == ListLoop(pat, i, end, count, parent, NoNode)

\* pattern = Some(Either(..)) of parse_either
PushEither(acc, item) ==
    IF acc = NoNode THEN item
    ELSE IF acc.t = "Either" THEN Either(Append(acc.items, item))
    ELSE Either(<<acc, item>>)

\* the body of the while let of parse_either, parse_list having returned r
EitherStep(pat, end, parent, acc, r) ==
    IF r.err THEN ParseErr
    ELSE IF r.node = NoNode THEN ParseOk(acc, r.i, r.count)
    ELSE IF r.i >= Len(pat)
    THEN EitherLoop(pat, r.i, end, r.count, parent, PushEither(acc, r.node))
    ELSE IF pat[r.i + 1] = "|"
    THEN EitherLoop(pat, r.i + 1, end, r.count, parent, PushEither(acc, r.node))
    ELSE ParseOk(PushEither(acc, r.node), r.i, r.count)

\* the while let of parse_either; acc is the local `pattern`
EitherLoop(pat, i, end, count, parent, acc) ==
    EitherStep(pat, end, parent, acc, parse_list(pat, i, end \cup {PIPE}, count, parent))

parse_either(pat, i, end, count, parent) == EitherLoop(pat, i, end, count, parent, NoNode)

(***************************************************************************)
(* The input line.  str::char_indices yields byte offsets, so a character  *)
(* of the line has a width in bytes (UTF-8); input.len() is a byte length. *)
(***************************************************************************)
Width(c) == IF c = "é" THEN 2 ELSE 1

RECURSIVE Offset(_, _)
Offset(input, k) == IF k = 0 THEN 0 ELSE Offset(input, k - 1) + Width(input[k])

ByteLen(input) == Offset(input, Len(input))

IsCharBoundary(input, o) == \E k \in 0..Len(input) : Offset(input, k) = o

CharsBefore(input, o) == CHOOSE k \in 0..Len(input) : Offset(input, k) = o

Range(start, end) == [start |-> start, end |-> end]

\* str::get(range): None unless the range is ordered, inside the string and on
\* character boundaries
StrGet(input, range) ==
    IF /\ range.start <= range.end
       /\ range.end <= ByteLen(input)
       /\ IsCharBoundary(input, range.start)
       /\ IsCharBoundary(input, range.end)
    THEN Some(SubSeq(input, CharsBefore(input, range.start) + 1,
                            CharsBefore(input, range.end)))
    ELSE None

(***************************************************************************)
(* The matcher.  A call of matches returns its boolean (ok) together with  *)
(* what it did to its &mut arguments: the input iterator k and the capture *)
(* array state.  err: the call panicked (an index out of bounds, an unwrap *)
(* of None).  div: the call never returns.  calls: the calls of matches    *)
(* that returned during this call, each with its arguments and outcome.    *)
(***************************************************************************)
Ret(ok, k, st) ==
    [ok |-> ok, k |-> k, state |-> st, div |-> FALSE, err |-> FALSE, calls |-> {}]

Panic(k, st) ==
    [ok |-> FALSE, k |-> k, state |-> st, div |-> FALSE, err |-> TRUE, calls |-> {}]

Diverge(k, st) ==
    [ok |-> FALSE, k |-> k, state |-> st, div |-> TRUE, err |-> FALSE, calls |-> {}]

Call(self, k, st, r) ==
    [node |-> self, k |-> k, state |-> st, ok |-> r.ok, k2 |-> r.k, state2 |-> r.state]

Returned(r) == ~r.div /\ ~r.err

\* the for exp_c in content.chars() of the arm Reference
RECURSIVE ReferenceLoop(_, _, _, _, _)
ReferenceLoop(content, j, input, k, st) ==
    IF j > Len(content) THEN Ret(TRUE, k, st)
    ELSE IF k >= Len(input) THEN Ret(FALSE, k, st)
    ELSE IF content[j] # input[k + 1] THEN Ret(FALSE, k + 1, st)
    ELSE ReferenceLoop(content, j + 1, input, k + 1, st)

\* the arm Reference
MatchReference(id, input, k, st) ==
    IF id >= Len(st) THEN Panic(k, st)
    ELSE IF st[id + 1] = None THEN Ret(FALSE, k, st)
    ELSE LET content == StrGet(input, st[id + 1][1])
         IN  IF content = None THEN Panic(k, st)
             ELSE ReferenceLoop(content[1], 1, input, k, st)

\* the span the arm CaptureGroup records once its item has matched; k is the
\* iterator after the item
CaptureSpan(start, input, k) ==
    IF k < Len(input) THEN Range(start, Offset(input, k))
    ELSE Range(start, ByteLen(input))

RECURSIVE matches(_, _, _, _)
RECURSIVE MatchArm(_, _, _, _)
RECURSIVE OneOrMoreLoop(_, _, _, _, _)
RECURSIVE EitherLoopMatch(_, _, _, _, _)
RECURSIVE ListLoopMatch(_, _, _, _, _)

\* OneOrMoreLoop without the checkpoint: the repetitions run on iter itself, so the
\* characters the failed last repetition consumed stay consumed
RECURSIVE OneOrMoreLoopOnIter(_, _, _, _, _)
OneOrMoreLoopOnIter(inner, input, k, st, seen) ==
    IF <<k, st>> \in seen THEN Diverge(k, st)
    ELSE LET r == matches(inner, input, k, st)
         IN  IF ~Returned(r) THEN r
             ELSE IF ~r.ok THEN [Ret(TRUE, r.k, r.state) EXCEPT !.calls = r.calls]
             ELSE LET rest == OneOrMoreLoopOnIter(inner, input, r.k, r.state,
                                                  seen \cup {<<k, st>>})
                  IN  [rest EXCEPT !.calls = @ \cup r.calls]

\* the while inner.matches(input, &mut tmp_iter, state) of the arm OneOrMore: iter
\* and tmp_iter both stand at k when the condition is evaluated.  seen holds the
\* (tmp_iter, state) of the earlier evaluations: matches is a function of its
\* arguments, so an evaluation that repeats one of them repeats for ever.
OneOrMoreLoop(inner, input, k, st, seen) ==
    IF <<k, st>> \in seen THEN Diverge(k, st)
    ELSE LET r == matches(inner, input, k, st)
         IN  IF ~Returned(r) THEN r
             ELSE IF ~r.ok THEN [Ret(TRUE, k, r.state) EXCEPT !.calls = r.calls]
             ELSE LET rest == OneOrMoreLoop(inner, input, r.k, r.state,
                                            seen \cup {<<k, st>>})
                  IN  [rest EXCEPT !.calls = @ \cup r.calls]

\* the for item in items.iter() of the arm Either, from item j on; k is iter
EitherLoopMatch(items, j, input, k, st) ==
    IF j > Len(items) THEN Ret(FALSE, k, st)
    ELSE LET r == matches(items[j], input, k, st)
         IN  IF ~Returned(r) \/ r.ok THEN r
             ELSE LET rest == EitherLoopMatch(items, j + 1, input, k, r.state)
                  IN  [rest EXCEPT !.calls = @ \cup r.calls]

\* the for item in items.iter() of the arm List, from item j on
ListLoopMatch(items, j, input, k, st) ==
    IF j > Len(items) THEN Ret(TRUE, k, st)
    ELSE LET r == matches(items[j], input, k, st)
         IN  IF ~Returned(r) \/ ~r.ok THEN r
             ELSE LET rest == ListLoopMatch(items, j + 1, input, r.k, r.state)
                  IN  [rest EXCEPT !.calls = @ \cup r.calls]

\* the body of matches
MatchArm(self, input, k, st) ==
    IF k < Len(input)
    THEN LET i == Offset(input, k)
             c == input[k + 1]
         IN  CASE self.t = "Literal" -> Ret(self.c = c, k + 1, st)
               [] self.t = "Digit" -> Ret(IsDigit(c), k + 1, st)
               [] self.t = "Alphanumeric" -> Ret(IsAlphanumeric(c), k + 1, st)
               [] self.t = "CharacterGroup" ->
                    Ret((~self.positive) # (\E m \in 1..Len(self.group) : self.group[m] = c),
                        k + 1, st)
               [] self.t = "StartAnchor" -> Ret(i = 0, k, st)
               [] self.t = "EndAnchor" -> Ret(FALSE, k, st)
               [] self.t = "OneOrMore" ->
                    LET r == matches(self.item, input, k, st)
                    IN  IF ~Returned(r) \/ ~r.ok THEN r
                        ELSE LET rest == OneOrMoreLoop(self.item, input, r.k, r.state, {})
                             IN  [rest EXCEPT !.calls = @ \cup r.calls]
               [] self.t = "ZeroOrOne" ->
                    LET r == matches(self.item, input, k, st)
                    IN  IF ~Returned(r) THEN r
                        ELSE IF r.ok THEN r
                        ELSE [r EXCEPT !.ok = TRUE, !.k = k]
               [] self.t = "Wildcard" -> Ret(TRUE, k + 1, st)
               [] self.t = "Either" -> EitherLoopMatch(self.items, 1, input, k, st)
               [] self.t = "List" -> ListLoopMatch(self.items, 1, input, k, st)
               [] self.t = "Reference" -> MatchReference(self.id, input, k, st)
               [] self.t = "CaptureGroup" ->
                    LET start == i
                        r == matches(self.item, input, k, st)
                    IN  IF ~Returned(r) \/ ~r.ok THEN r
                        ELSE IF self.id >= Len(r.state) THEN Panic(r.k, r.state)
                        ELSE [r EXCEPT !.state =
                                 [@ EXCEPT ![self.id + 1] = Some(CaptureSpan(start, input, r.k))]]
    ELSE Ret(self = EndAnchor, k, st)

matches(self, input, k, st) ==
    LET r == MatchArm(self, input, k, st)
    IN  IF Returned(r) THEN [r EXCEPT !.calls = @ \cup {Call(self, k, st, r)}] ELSE r

(***************************************************************************)
(* run: the pattern is parsed, then matched from the input iterator until  *)
(* an attempt succeeds or the iterator is exhausted.                       *)
(*   pc = "parse"     before Pattern::parse_either                         *)
(*   pc = "loop"      at the condition of the while                        *)
(*   pc = "matching"  inside the call of pattern.matches                   *)
(*   pc = "done"      run has returned; result is what it returned         *)
(* attempts: the byte offsets at which the attempts made so far began.     *)
(* calls: the calls of matches made by the last attempt.                   *)
(***************************************************************************)
MaxPatLen == 3

MaxLineLen == 2

MaxGreedyPatLen == 4

MaxGreedyLineLen == 3

MaxCapturePatLen == 5

MaxCaptureLineLen == 2

PatternAlphabet == {"a", "b", "(", ")", "|", "+", "?", "\\", "1", "^", "$", ".", "[", "]"}

LineAlphabet == {"a", "b"}

GreedyPatternAlphabet == {"a", "b", "+", "?", "^", "$"}

CapturePatternAlphabet == {"a", ".", "(", ")", "\\", "1"}

CaptureLineAlphabet == {"a", "é"}

CatPattern == <<"(", "c", "a", "t", ")", " ", "a", "n", "d", " ", "\\", "1">>

CatAndCat == <<"c", "a", "t", " ", "a", "n", "d", " ", "c", "a", "t">>

CatAndDog == <<"c", "a", "t", " ", "a", "n", "d", " ", "d", "o", "g">>

\* patterns longer than the bounds: the examples of the specification, and
\* patterns with nested groups, alternatives and back references
LongPatterns ==
    { CatPattern,
      <<"(", "(", "\\", "1", ")", ")">>,
      <<"(", "^", ")", "a", "\\", "1">>,
      <<"(", "a", "?", ")", "b", "\\", "1">>,
      <<"(", "a", ")", "b", "|", "a">>,
      <<"(", "a", ")", "\\", "1">>,
      <<"(", "a", ")", "(", ".", ")", "\\", "2">>,
      <<"(", "(", "a", ")", "\\", "2", ")">>,
      <<"(", "a", "|", "(", "b", ")", ")", "\\", "2">>,
      <<"(", "c", "a", "t", "|", "c", "a", "r", ")", "s">>,
      <<"[", "^", "a", "b", "c", "]">>,
      <<"\\", "d", "+">>,
      <<"\\", "z">>,
      <<"\\", "0">>,
      <<"\\", "w">> }

LongLines == {CatAndCat, CatAndDog, <<"c", "a", "r", "s">>}

Patterns == (SeqsUpTo(PatternAlphabet, MaxPatLen) \ {<< >>}) \cup LongPatterns

Lines == SeqsUpTo(LineAlphabet, MaxLineLen) \cup LongLines

GreedyPatterns == SeqsUpTo(GreedyPatternAlphabet, MaxGreedyPatLen) \ {<< >>}

GreedyLines == SeqsUpTo(LineAlphabet, MaxGreedyLineLen)

CapturePatterns ==
    (SeqsUpTo(CapturePatternAlphabet, MaxCapturePatLen) \ {<< >>}) \cup LongPatterns

CaptureLines == SeqsUpTo(CaptureLineAlphabet, MaxCaptureLineLen)

InitOver(P, L) ==
    /\ pattern \in P
    /\ input_line \in L
    /\ pc = "parse"
    /\ parsed = NoNode
    /\ capture_group_count = 0
    /\ input_iter = 0
    /\ state = << >>
    /\ result = "none"
    /\ attempts = << >>
    /\ calls = {}

Init == InitOver(Patterns, Lines)

InitGreedy == InitOver(GreedyPatterns, GreedyLines)

InitCapture == InitOver(CapturePatterns, CaptureLines)

\* Pattern::parse_either(&mut pattern.chars().peekable(), EndFlags::empty(), ..)? and
\* the setup of the loop
Parse ==
    /\ pc = "parse"
    /\ LET r == parse_either(pattern, 0, {}, 0, None)
       IN  IF r.err
           THEN /\ result' = "error"
                /\ pc' = "done"
                /\ UNCHANGED <<parsed, capture_group_count>>
           ELSE IF r.node = NoNode
           THEN /\ result' = "true"
                /\ pc' = "done"
                /\ UNCHANGED <<parsed, capture_group_count>>
           ELSE /\ parsed' = r.node
                /\ capture_group_count' = r.count
                /\ pc' = "loop"
                /\ UNCHANGED result
    /\ UNCHANGED <<pattern, input_line, input_iter, state, attempts, calls>>

\* while input_iter.peek() != None { state.clear(); state.resize(..); and the call
\* of pattern.matches is entered
BeginAttempt ==
    /\ pc = "loop"
    /\ input_iter < Len(input_line)
    /\ state' = [g \in 1..capture_group_count |-> None]
    /\ attempts' = Append(attempts, Offset(input_line, input_iter))
    /\ pc' = "matching"
    /\ UNCHANGED <<pattern, input_line, parsed, capture_group_count, input_iter,
                   result, calls>>

\* pattern.matches(&input_line, &mut input_iter, &mut state) returns: return
\* Ok(true), or input_iter.next() and back to the condition of the while
EndAttempt ==
    /\ pc = "matching"
    /\ LET r == matches(parsed, input_line, input_iter, state)
       IN  /\ ~r.div
           /\ state' = r.state
           /\ calls' = r.calls
           /\ IF r.err
              THEN /\ result' = "panic"
                   /\ pc' = "done"
                   /\ input_iter' = r.k
              ELSE IF r.ok
              THEN /\ result' = "true"
                   /\ pc' = "done"
                   /\ input_iter' = r.k
              ELSE /\ input_iter' = IF r.k < Len(input_line) THEN r.k + 1 ELSE r.k
                   /\ pc' = "loop"
                   /\ UNCHANGED result
    /\ UNCHANGED <<pattern, input_line, parsed, capture_group_count, attempts>>

\* the while ends with the iterator exhausted: Ok(false)
NoMatch ==
    /\ pc = "loop"
    /\ input_iter >= Len(input_line)
    /\ result' = "false"
    /\ pc' = "done"
    /\ UNCHANGED <<pattern, input_line, parsed, capture_group_count, input_iter,
                   state, attempts, calls>>

Next == Parse \/ BeginAttempt \/ EndAttempt \/ NoMatch

Spec == Init /\ [][Next]_vars

SpecGreedy == InitGreedy /\ [][Next]_vars

SpecCapture == InitCapture /\ [][Next]_vars

(***************************************************************************)
(* Properties                                                              *)
(***************************************************************************)
Searched == pc = "done" /\ parsed # NoNode /\ result \in {"true", "false"}

MetaChars == {"\\", "(", ")", "[", "]", "^", "$", "+", "?", ".", "|"}

IsLiteralOnly(pat) == pat # << >> /\ \A j \in 1..Len(pat) : pat[j] \notin MetaChars

OccursAt(pat, line, s) ==
    s + Len(pat) <= Len(line) /\ \A j \in 1..Len(pat) : line[s + j] = pat[j]

Occurs(pat, line) == \E s \in 0..Len(line) : OccursAt(pat, line, s)

\* C1: for a non-empty pattern of literal characters only, the search reports a
\* match if and only if the pattern text occurs as a contiguous substring of the
\* line.
LiteralSearchIsSubstring ==
    (pc = "done" /\ IsLiteralOnly(pattern)) =>
        (result = "true" <=> Occurs(pattern, input_line))

\* C2: the k-th attempt of a search begins at offset k - 1 of the line whatever
\* the failed attempts before it consumed, and the search reports failure only
\* after an attempt has begun at every offset below the line length.
AttemptsAtConsecutiveOffsets ==
    /\ \A k \in 1..Len(attempts) : attempts[k] = k - 1
    /\ (Searched /\ result = "false") => Len(attempts) = ByteLen(input_line)

IsPrefixAt(content, line, k) ==
    k + Len(content) <= Len(line) /\ \A j \in 1..Len(content) : line[k + j] = content[j]

ReferenceRoundTrip(e) ==
    IF e.state[e.node.id + 1] = None THEN ~e.ok
    ELSE LET span == e.state[e.node.id + 1][1]
             content == SubSeq(input_line, CharsBefore(input_line, span.start) + 1,
                               CharsBefore(input_line, span.end))
         IN  /\ e.ok <=> IsPrefixAt(content, input_line, e.k)
             /\ e.ok => e.k2 = e.k + Len(content)

\* C3: Reference(id) fails when state[id] is unset, and otherwise succeeds exactly
\* when the text of the line at the cursor equals the captured substring, which it
\* then consumes; `(cat) and \1` matches "cat and cat" with group 0 at 0..3 and
\* does not match "cat and dog".
BackreferenceRoundTrip ==
    /\ \A e \in calls : e.node.t = "Reference" => ReferenceRoundTrip(e)
    /\ (pc = "done" /\ pattern = CatPattern /\ input_line = CatAndCat) =>
           (result = "true" /\ state = <<Some(Range(0, 3))>>)
    /\ (pc = "done" /\ pattern = CatPattern /\ input_line = CatAndDog) =>
           result = "false"

\* the examples of C3 alone
CatExamples ==
    /\ (pc = "done" /\ pattern = CatPattern /\ input_line = CatAndCat) =>
           (result = "true" /\ state = <<Some(Range(0, 3))>>)
    /\ (pc = "done" /\ pattern = CatPattern /\ input_line = CatAndDog) =>
           result = "false"

\* C7: ZeroOrOne(child) returns true for every child, cursor and capture state;
\* the cursor moves to where the child left it when the child matched and stays
\* where it was otherwise.
ZeroOrOneAlwaysTrue ==
    \A e \in calls :
        e.node.t = "ZeroOrOne" =>
            /\ e.ok
            /\ \/ e.k2 = e.k
               \/ \E c \in calls :
                    c.node = e.node.item /\ c.k = e.k /\ c.state = e.state /\ c.ok /\ c.k2 = e.k2

\* C10: every match attempt returns, and the retry loop ends: each attempt that
\* fails moves the input iterator forward.
SearchTerminates ==
    /\ pc = "matching" => ~matches(parsed, input_line, input_iter, state).div
    /\ pc = "loop" => Len(attempts) <= input_iter
    /\ Len(attempts) <= Len(input_line)

RECURSIVE BackreferenceScan(_, _, _)
RECURSIVE BackreferenceScanItems(_, _, _, _)

\* a walk of the tree in the order of the pattern text: count is the number of
\* groups opened so far, open the ids of the groups not yet closed; ok: every
\* Reference met so far names a group opened before it and closed
BackreferenceScan(node, count, open) ==
    CASE node.t = "Reference" ->
           [ok |-> node.id < count /\ node.id \notin open, count |-> count]
      [] node.t = "CaptureGroup" ->
           BackreferenceScan(node.item, count + 1, open \cup {node.id})
      [] node.t \in {"OneOrMore", "ZeroOrOne"} -> BackreferenceScan(node.item, count, open)
      [] node.t \in {"List", "Either"} -> BackreferenceScanItems(node.items, 1, count, open)
      [] OTHER -> [ok |-> TRUE, count |-> count]

BackreferenceScanItems(items, j, count, open) ==
    IF j > Len(items) THEN [ok |-> TRUE, count |-> count]
    ELSE LET r == BackreferenceScan(items[j], count, open)
             rest == BackreferenceScanItems(items, j + 1, r.count, open)
         IN  [ok |-> r.ok /\ rest.ok, count |-> rest.count]

\* C4: parse fails for every pattern with a back reference whose id is not smaller
\* than the number of groups opened so far or is the id of a group that encloses
\* it and is not yet closed: a pattern that parses has no such back reference.
ParseRejectsUnclosedBackreference ==
    parsed # NoNode => BackreferenceScan(parsed, 0, {}).ok

RECURSIVE Taken(_, _, _)
RECURSIVE TakenLoop(_, _, _)
RECURSIVE TakenList(_, _, _, _)
RECURSIVE TakenEither(_, _, _, _)

\* the ids of the groups that take part in the match of node from cursor k with
\* captures st: the groups on the path the successful match took
Taken(node, k, st) ==
    IF ~matches(node, input_line, k, st).ok THEN {}
    ELSE CASE node.t = "CaptureGroup" -> {node.id} \cup Taken(node.item, k, st)
           [] node.t = "ZeroOrOne" -> Taken(node.item, k, st)
           [] node.t = "OneOrMore" ->
                Taken(node.item, k, st)
                    \cup TakenLoop(node.item, matches(node.item, input_line, k, st).k,
                                   matches(node.item, input_line, k, st).state)
           [] node.t = "List" -> TakenList(node.items, 1, k, st)
           [] node.t = "Either" -> TakenEither(node.items, 1, k, st)
           [] OTHER -> {}

TakenLoop(inner, k, st) ==
    IF ~matches(inner, input_line, k, st).ok THEN {}
    ELSE Taken(inner, k, st)
             \cup TakenLoop(inner, matches(inner, input_line, k, st).k,
                            matches(inner, input_line, k, st).state)

TakenList(items, j, k, st) ==
    IF j > Len(items) THEN {}
    ELSE Taken(items[j], k, st)
             \cup TakenList(items, j + 1, matches(items[j], input_line, k, st).k,
                            matches(items[j], input_line, k, st).state)

TakenEither(items, j, k, st) ==
    IF j > Len(items) THEN {}
    ELSE IF matches(items[j], input_line, k, st).ok THEN Taken(items[j], k, st)
    ELSE TakenEither(items, j + 1, k, matches(items[j], input_line, k, st).state)

\* C5: when a search succeeds, the reported capture array is unset at every group
\* that did not take part in the winning match, a group of an alternation branch
\* that was tried and abandoned included.
UntakenGroupsUnset ==
    (Searched /\ result = "true") =>
        \A g \in 1..capture_group_count :
            (g - 1) \notin Taken(parsed, CharsBefore(input_line, attempts[Len(attempts)]),
                                 [h \in 1..capture_group_count |-> None])
                => state[g] = None

RECURSIVE Lex(_, _)
RECURSIVE SetEnd(_, _)

\* the index of the first "]" of pat after index j - 1, 0 when there is none
SetEnd(pat, j) ==
    IF j > Len(pat) THEN 0 ELSE IF pat[j] = "]" THEN j ELSE SetEnd(pat, j + 1)

\* the tokens of the pattern text after its first i characters, by the grammar
Lex(pat, i) ==
    IF i >= Len(pat) THEN << >>
    ELSE CASE pat[i + 1] = "\\" ->
                IF i + 1 >= Len(pat) THEN <<"bad escape">>
                ELSE IF pat[i + 2] \in {"d", "w"} THEN <<"class">> \o Lex(pat, i + 2)
                ELSE IF IsDigit(pat[i + 2])
                THEN <<IF ReadNumber(pat, i + 2, ToDigit(pat[i + 2])).num = 0
                       THEN "reference 0" ELSE "reference">>
                         \o Lex(pat, ReadNumber(pat, i + 2, ToDigit(pat[i + 2])).i)
                ELSE <<"bad escape">> \o Lex(pat, i + 2)
           [] pat[i + 1] = "[" ->
                IF SetEnd(pat, i + 3) = 0 THEN <<"open set">>
                ELSE <<"set">> \o Lex(pat, SetEnd(pat, i + 3))
           [] pat[i + 1] \in {"(", ")", "|", "+", "?"} -> <<pat[i + 1]>> \o Lex(pat, i + 1)
           [] OTHER -> <<"atom">> \o Lex(pat, i + 1)

RECURSIVE OpenGroups(_, _, _)
\* the number of "(" of tokens t[j..] and of depth earlier ones left without a ")"
OpenGroups(t, j, depth) ==
    IF j > Len(t) THEN depth
    ELSE IF t[j] = "(" THEN OpenGroups(t, j + 1, depth + 1)
    ELSE IF t[j] = ")" /\ depth > 0 THEN OpenGroups(t, j + 1, depth - 1)
    ELSE OpenGroups(t, j + 1, depth)

BadToken(t) == \E j \in 1..Len(t) : t[j] \in {"bad escape", "open set", "reference 0"}

\* a + or ? at the start of the pattern, right after a "(", or right after a "|"
\* that ends a non-empty sequence
LeadingQuantifier(t) ==
    \E j \in 1..Len(t) :
        /\ t[j] \in {"+", "?"}
        /\ \/ j = 1
           \/ t[j - 1] = "("
           \/ j > 2 /\ t[j - 1] = "|" /\ t[j - 2] \notin {"(", "|"}

UnclosedGroup(t) == OpenGroups(t, 1, 0) > 0

EmptyGroup(t) == \E j \in 1..Len(t) - 1 : t[j] = "(" /\ t[j + 1] = ")"

Malformed(pat) ==
    \/ BadToken(Lex(pat, 0))
    \/ LeadingQuantifier(Lex(pat, 0))
    \/ UnclosedGroup(Lex(pat, 0))
    \/ EmptyGroup(Lex(pat, 0))

\* C6: parse fails for every pattern with an unsupported escape, an unterminated
\* bracket set, a back reference 0, a + or ? with no atom before it, a ( with no
\* matching ) or a group with an empty body; a++ is accepted.
ParseRejectsMalformed ==
    pc = "done" =>
        /\ Malformed(pattern) => result = "error"
        /\ pattern = <<"a", "+", "+">> => result # "error"

RECURSIVE RunEnd(_, _, _)
\* the cursor after the maximal run of c that starts at cursor k
RunEnd(line, k, c) ==
    IF k < Len(line) /\ line[k + 1] = c THEN RunEnd(line, k + 1, c) ELSE k

NextNeedsRun(items) ==
    \E j \in 1..Len(items) - 1 :
        items[j].t = "OneOrMore" /\ items[j].item.t = "Literal" /\ items[j + 1] = items[j].item

\* C8: OneOrMore returns true iff its first child attempt succeeded; after
\* OneOrMore(Literal c) succeeds from cursor p the cursor stands at the end of the
\* maximal run of c that starts at p; and a List in which OneOrMore(Literal c) is
\* followed by Literal c fails.
GreedyOneOrMore ==
    \A e \in calls :
        /\ e.node.t = "OneOrMore" =>
               /\ e.ok <=> /\ e.k < Len(input_line)
                           /\ \E c \in calls : /\ c.node = e.node.item
                                               /\ c.k = e.k
                                               /\ c.state = e.state
                                               /\ c.ok
               /\ (e.ok /\ e.node.item.t = "Literal") =>
                      (e.k2 > e.k /\ e.k2 = RunEnd(input_line, e.k, e.node.item.c))
        /\ (e.node.t = "List" /\ NextNeedsRun(e.node.items)) => ~e.ok

\* a+a on "aaa": a+ takes the three a and the attempt fails
GreedyOneOrMoreWitness ==
    /\ pc = "done"
    /\ input_line = <<"a", "a", "a">>
    /\ result = "false"
    /\ \E e \in calls : /\ e.node = OneOrMore(Literal("a"))
                        /\ e.ok /\ e.k = 0 /\ e.k2 = 3
    /\ \E e \in calls : /\ e.node = List(<<OneOrMore(Literal("a")), Literal("a")>>)
                        /\ ~e.ok

RECURSIVE GroupIds(_)
RECURSIVE GroupIdsOf(_, _)
\* the ids the CaptureGroup and Reference nodes of a tree use
GroupIds(node) ==
    CASE node.t = "Reference" -> {node.id}
      [] node.t = "CaptureGroup" -> {node.id} \cup GroupIds(node.item)
      [] node.t \in {"OneOrMore", "ZeroOrOne"} -> GroupIds(node.item)
      [] node.t \in {"List", "Either"} -> GroupIdsOf(node.items, 1)
      [] OTHER -> {}

GroupIdsOf(items, j) ==
    IF j > Len(items) THEN {} ELSE GroupIds(items[j]) \cup GroupIdsOf(items, j + 1)

SpansValid(st) ==
    \A g \in 1..Len(st) :
        st[g] # None =>
            /\ 0 <= st[g][1].start
            /\ st[g][1].start <= st[g][1].end
            /\ st[g][1].end <= ByteLen(input_line)
            /\ StrGet(input_line, st[g][1]) # None

\* C9: matching never produces an error: every id of a CaptureGroup or Reference
\* node is an index of the capture array, whose length is the group count, every
\* set entry is a span with 0 <= start <= end <= line length on which the
\* substring lookup succeeds, and no call of matches panics.
MatchingNeverErrs ==
    /\ result # "panic"
    /\ parsed # NoNode => \A id \in GroupIds(parsed) : id < capture_group_count
    /\ pc = "matching" =>
           /\ Len(state) = capture_group_count
           /\ ~matches(parsed, input_line, input_iter, state).err
    /\ SpansValid(state)
    /\ \A e \in calls : /\ Len(e.state) = capture_group_count
                        /\ Len(e.state2) = capture_group_count
                        /\ SpansValid(e.state)
                        /\ SpansValid(e.state2)

\* (.)\1 on a line of two-byte characters: the back reference looks up the span
\* 0..2 and matches
MatchingNeverErrsWitness ==
    /\ pc = "done"
    /\ result = "true"
    /\ input_line = <<"é", "é">>
    /\ state = <<Some(Range(0, 2))>>
    /\ \E e \in calls : e.node = Reference(0) /\ e.state = state /\ e.ok /\ e.k2 = 2

====
